---------------------------- MODULE Spec2Model ----------------------------
(***************************************************************************)
(* ShoreSquad: the weather-forecast ingestion path of src/js/weather.js.   *)
(*                                                                         *)
(* JavaScript values are tagged records ([t |-> "undef"], [t |-> "str",    *)
(* s |-> <<chars>>], ...), strings are sequences of one-character strings, *)
(* and a call that may throw yields Return(v) or Throw(e).                 *)
(* The pictographs of the condition-icon table are written as names        *)
(* ("sun" for the sun emoji, ...), one name per distinct pictograph; a     *)
(* pictograph is one character of a string.                                *)
(***************************************************************************)
EXTENDS Integers, Sequences, FiniteSets, TLC

VARIABLES
    tz,             \* the browser's local time-zone offset from UTC, in hours
    readyState,     \* document.readyState
    scriptRun,      \* the top-level statement of weather.js has been evaluated
    listener,       \* initWeather is registered for DOMContentLoaded
    pc,             \* position of the initWeather run
    runs,           \* number of times initWeather has been entered
    fetchCalls,     \* number of calls of WeatherAPI.fetch4DayForecast
    requests,       \* number of calls of fetch(), i.e. network requests issued
    net,            \* what the network answered to the request (history)
    response,       \* the Response object held while awaiting response.json()
    fetchResult,    \* how the promise of fetch4DayForecast settled
    settled,        \* how the promise of initWeather settled
    loadingDisplay, \* loadingEl.style.display
    errorDisplay,   \* errorEl.style.display
    errorText,      \* errorEl.textContent
    forecastHTML,   \* the blocks of forecastContainer, as its innerHTML parses
    loadingWrites,  \* number of assignments loadingEl.style.display = 'none'
    renderWrites,   \* number of assignments to forecastContainer.innerHTML
    errorWrites,    \* number of assignments to errorEl.textContent
    consoleErrors,  \* number of console.error calls
    data,           \* the argument of a direct parseForecast call
    parsed,         \* the outcome of that call
    call,           \* a direct call of a helper of WeatherAPI: its name and argument
    ret,            \* the outcome of that call
    events,         \* ShoreSquadData.events
    grid,           \* the cards of the events grid, as renderEvents wrote them
    activeFilter,   \* the filter button that has the class 'active'
    modals,         \* number of 'Create New Event' dialogs open
    toast           \* the notification shown last, until it expires

vars == <<tz, readyState, scriptRun, listener, pc, runs, fetchCalls, requests,
          net, response, fetchResult, settled, loadingDisplay, errorDisplay,
          errorText, forecastHTML, loadingWrites, renderWrites, errorWrites,
          consoleErrors, data, parsed, call, ret,
          events, grid, activeFilter, modals, toast>>

eventVars == <<events, grid, activeFilter, modals, toast>>

-----------------------------------------------------------------------------
(* Bounds *)

\* the largest number of per-day entries of a forecast item
MaxDays == 4

\* the largest number of events created through the dialog
MaxCreated == 1

\* the largest number of 'Create New Event' dialogs open at once
MaxModals == 1

-----------------------------------------------------------------------------
(* JavaScript values *)

JUndef == [t |-> "undef"]
JNull == [t |-> "null"]
JNaN == [t |-> "nan"]
JStr(s) == [t |-> "str", s |-> s]
JNum(n) == [t |-> "num", n |-> n]
JArr(a) == [t |-> "arr", a |-> a]
JFn(name) == [t |-> "fn", name |-> name]

Return(v) == [ok |-> TRUE, value |-> v]
Throw(e) == [ok |-> FALSE, error |-> e]
JsError(name, message) == [name |-> name, message |-> message]

\* ToBoolean
Truthy(v) ==
    CASE v.t = "undef" -> FALSE
      [] v.t = "null" -> FALSE
      [] v.t = "nan" -> FALSE
      [] v.t = "str" -> Len(v.s) > 0
      [] v.t = "num" -> v.n # 0
      [] OTHER -> TRUE

Digits == <<"0", "1", "2", "3", "4", "5", "6", "7", "8", "9">>

IsDigit(c) == \E i \in 1..10 : Digits[i] = c

DigitValue(c) == (CHOOSE i \in 1..10 : Digits[i] = c) - 1

RECURSIVE NatToChars(_)
\* Number.prototype.toString of a non-negative integer
NatToChars(n) ==
    IF n < 10 THEN <<Digits[n + 1]>>
    ELSE NatToChars(n \div 10) \o <<Digits[(n % 10) + 1]>>

IntToChars(n) == IF n < 0 THEN <<"-">> \o NatToChars(-n) ELSE NatToChars(n)

S_undefined == <<"u", "n", "d", "e", "f", "i", "n", "e", "d">>
S_null == <<"n", "u", "l", "l">>
S_NaN == <<"N", "a", "N">>
S_NA == <<"N", "/", "A">>

\* ToString, as applied by a template literal to a value that converts
ToChars(v) ==
    CASE v.t = "undef" -> S_undefined
      [] v.t = "null" -> S_null
      [] v.t = "nan" -> S_NaN
      [] v.t = "str" -> v.s
      [] v.t = "num" -> IntToChars(v.n)
      [] v.t = "fn" -> <<"function ">> \o v.name \o <<"() { [native code] }">>

\* String.prototype.padStart(width, '0')
PadStart0(s, width) ==
    [i \in 1..(IF Len(s) >= width THEN 0 ELSE width - Len(s)) |-> "0"] \o s

UpperChars == <<"A", "B", "C", "D", "E", "F", "G", "H", "I", "J", "K", "L", "M",
                "N", "O", "P", "Q", "R", "S", "T", "U", "V", "W", "X", "Y", "Z">>
LowerChars == <<"a", "b", "c", "d", "e", "f", "g", "h", "i", "j", "k", "l", "m",
                "n", "o", "p", "q", "r", "s", "t", "u", "v", "w", "x", "y", "z">>

LowerChar(c) ==
    IF \E i \in 1..26 : UpperChars[i] = c
    THEN LowerChars[CHOOSE i \in 1..26 : UpperChars[i] = c]
    ELSE c

\* String.prototype.toLowerCase
ToLowerCase(s) == [i \in 1..Len(s) |-> LowerChar(s[i])]

\* String.prototype.includes
Includes(hay, needle) ==
    \E i \in 0..(Len(hay) - Len(needle)) :
        SubSeq(hay, i + 1, i + Len(needle)) = needle

RECURSIVE DigitsValue(_, _, _)
\* the value of the longest run of digits of s from position i, given acc so far
DigitsValue(s, i, acc) ==
    IF i > Len(s) \/ ~IsDigit(s[i]) THEN acc
    ELSE DigitsValue(s, i + 1, 10 * acc + DigitValue(s[i]))

RECURSIVE SkipSpaces(_, _)
SkipSpaces(s, i) == IF i <= Len(s) /\ s[i] = " " THEN SkipSpaces(s, i + 1) ELSE i

\* parseInt(v) for the decimal inputs of the model: leading blanks, an optional
\* sign, then the longest run of digits; NaN when there is no digit
ParseInt(v) ==
    LET s == ToChars(v)
        i == SkipSpaces(s, 1)
        neg == i <= Len(s) /\ s[i] = "-"
        j == IF i <= Len(s) /\ (s[i] = "-" \/ s[i] = "+") THEN i + 1 ELSE i
    IN  IF j > Len(s) \/ ~IsDigit(s[j]) THEN JNaN
        ELSE JNum((IF neg THEN -1 ELSE 1) * DigitsValue(s, j, 0))

-----------------------------------------------------------------------------
(* The condition-icon table and its lookup *)

\* WeatherAPI.weatherEmoji, as its entries in declaration order
weatherEmoji == <<
    <<<<"S", "u", "n", "n", "y">>, "sun">>,
    <<<<"P", "a", "r", "t", "l", "y", " ", "c", "l", "o", "u", "d", "y">>, "sun_behind_cloud">>,
    <<<<"C", "l", "o", "u", "d", "y">>, "cloud">>,
    <<<<"O", "v", "e", "r", "c", "a", "s", "t">>, "cloud">>,
    <<<<"L", "i", "g", "h", "t", " ", "r", "a", "i", "n">>, "rain_cloud">>,
    <<<<"M", "o", "d", "e", "r", "a", "t", "e", " ", "r", "a", "i", "n">>, "rain_cloud">>,
    <<<<"H", "e", "a", "v", "y", " ", "r", "a", "i", "n">>, "thunder_rain_cloud">>,
    <<<<"T", "h", "u", "n", "d", "e", "r", "y", " ", "s", "h", "o", "w", "e", "r", "s">>, "thunder_rain_cloud">>,
    <<<<"T", "h", "u", "n", "d", "e", "r", "s", "t", "o", "r", "m">>, "thunder_rain_cloud">>,
    <<<<"W", "i", "n", "d", "y">>, "wind_face">>,
    <<<<"F", "a", "i", "r">>, "sun">>,
    <<<<"H", "a", "z", "y">>, "fog">>,
    <<<<"M", "i", "s", "t">>, "fog">>,
    <<<<"F", "o", "g">>, "fog">>
>>

\* the pictograph returned when nothing matches
DefaultEmoji == "sun_behind_small_cloud"

\* some of the property names every object inherits from Object.prototype
ObjectPrototypeKeys == {
    <<"c", "o", "n", "s", "t", "r", "u", "c", "t", "o", "r">>,
    <<"t", "o", "S", "t", "r", "i", "n", "g">>,
    <<"v", "a", "l", "u", "e", "O", "f">>,
    <<"h", "a", "s", "O", "w", "n", "P", "r", "o", "p", "e", "r", "t", "y">>
}

\* a lookup that yields the matching key where the symbol is meant
WeatherEmojiGetKey(key) ==
    IF \E i \in 1..Len(weatherEmoji) : weatherEmoji[i][1] = key THEN JStr(key)
    ELSE IF key \in ObjectPrototypeKeys THEN JFn(key)
    ELSE JUndef

\* this.weatherEmoji[key]: an own property, else an inherited one, else undefined
WeatherEmojiGet(key) ==
    IF \E i \in 1..Len(weatherEmoji) : weatherEmoji[i][1] = key
    THEN JStr(<<weatherEmoji[CHOOSE i \in 1..Len(weatherEmoji) : weatherEmoji[i][1] = key][2]>>)
    ELSE IF key \in ObjectPrototypeKeys THEN JFn(key)
    ELSE JUndef

\* a search that keeps the last entry that matches, not the first
FirstPartialMatchLast(conditionLower) ==
    LET hits == {i \in 1..Len(weatherEmoji) :
                    Includes(conditionLower, ToLowerCase(weatherEmoji[i][1]))}
    IN  IF hits = {} THEN 0 ELSE CHOOSE i \in hits : \A j \in hits : i >= j

\* the index of the first entry, in declaration order, whose lowercased key
\* the lowercased condition contains; 0 when there is none
FirstPartialMatch(conditionLower) ==
    LET hits == {i \in 1..Len(weatherEmoji) :
                    Includes(conditionLower, ToLowerCase(weatherEmoji[i][1]))}
    IN  IF hits = {} THEN 0 ELSE CHOOSE i \in hits : \A j \in hits : i <= j

\* WeatherAPI.getWeatherEmoji(condition)
getWeatherEmoji(condition) ==
    IF ~Truthy(condition) THEN Return(JStr(<<DefaultEmoji>>))
    ELSE LET exact == WeatherEmojiGet(ToChars(condition)) IN
         IF Truthy(exact) THEN Return(exact)
         ELSE IF condition.t # "str"
              THEN Throw(JsError("TypeError", <<"condition.toLowerCase is not a function">>))
         ELSE LET k == FirstPartialMatch(ToLowerCase(condition.s)) IN
              IF k # 0 THEN Return(JStr(<<weatherEmoji[k][2]>>))
              ELSE Return(JStr(<<DefaultEmoji>>))

-----------------------------------------------------------------------------
(* Dates: a Date is its fields in local time, or the Invalid Date *)

InvalidDate == [valid |-> FALSE]

\* month is 0-based, as Date.prototype.getMonth returns it
MkDate(y, m, d, h) == [valid |-> TRUE, y |-> y, m |-> m, d |-> d, h |-> h]

IsLeap(y) == (y % 4 = 0 /\ y % 100 # 0) \/ y % 400 = 0

DaysInMonth(y, m) ==
    IF m = 1 THEN (IF IsLeap(y) THEN 29 ELSE 28)
    ELSE IF m \in {3, 5, 8, 10} THEN 30 ELSE 31

RECURSIVE MakeDay(_, _, _, _)
\* the date of day number n >= 0 of month m of year y, where day 0 is the last
\* day of the month before and days past the end of the month run on
MakeDay(y, m, n, h) ==
    IF n = 0
    THEN (IF m = 0 THEN MkDate(y - 1, 11, 31, h)
          ELSE MkDate(y, m - 1, DaysInMonth(y, m - 1), h))
    ELSE IF n <= DaysInMonth(y, m) THEN MkDate(y, m, n, h)
    ELSE IF m = 11 THEN MakeDay(y + 1, 0, n - DaysInMonth(y, m), h)
    ELSE MakeDay(y, m + 1, n - DaysInMonth(y, m), h)

\* Date.prototype.getDate
GetDate(date) == IF date.valid THEN JNum(date.d) ELSE JNaN

\* Date.prototype.getMonth
GetMonth(date) == IF date.valid THEN JNum(date.m) ELSE JNaN

\* date.setDate(n), for n >= 0 or NaN; the time of day is kept
SetDate(date, n) ==
    IF ~date.valid \/ n.t = "nan" THEN InvalidDate
    ELSE MakeDay(date.y, date.m, n.n, date.h)

\* the + of two numbers
JsAdd(a, b) == IF a.t = "nan" \/ b.t = "nan" THEN JNaN ELSE JNum(a.n + b.n)

LeapsThrough(y) == (y \div 4) - (y \div 100) + (y \div 400)

RECURSIVE DaysBeforeMonth(_, _)
DaysBeforeMonth(y, m) ==
    IF m = 0 THEN 0 ELSE DaysBeforeMonth(y, m - 1) + DaysInMonth(y, m - 1)

\* days from 1970-01-01 to the date (years from 1970 on)
DayNumber(date) ==
    365 * (date.y - 1970) + (LeapsThrough(date.y - 1) - LeapsThrough(1969))
        + DaysBeforeMonth(date.y, date.m) + (date.d - 1)

\* Date.prototype.getDay: 0 is Sunday; 1970-01-01 was a Thursday
GetDay(date) == IF date.valid THEN JNum((DayNumber(date) + 4) % 7) ELSE JNaN

\* new Date(v) read in a browser whose zone is tz hours ahead of UTC.
\* A date-time string is [t |-> "iso", y, mo (1..12), d, h, off], off its own
\* offset in hours; a date-only string is [t |-> "isodate", y, mo, d] and is
\* taken as UTC midnight; undefined and any other string give the Invalid Date.
NewDate(v, zone) ==
    IF v.t \notin {"iso", "isodate"} THEN InvalidDate
    ELSE LET utcHour == IF v.t = "iso" THEN v.h - v.off ELSE 0
             localHour == utcHour + zone
             shift == IF localHour < 0 THEN -1 ELSE IF localHour >= 24 THEN 1 ELSE 0
         IN  MakeDay(v.y, v.mo - 1, v.d + shift, localHour - 24 * shift)

-----------------------------------------------------------------------------
(* WeatherAPI.parseForecast and its helpers *)

JObj(fields) == [t |-> "obj"] @@ fields

\* v.name for a value v that is neither undefined nor null
Get(v, name) == IF v.t = "obj" /\ name \in DOMAIN v THEN v[name] ELSE JUndef

\* whether reading a property of v throws
Nullish(v) == v.t \in {"undef", "null"}

days == <<<<"S", "u", "n">>, <<"M", "o", "n">>, <<"T", "u", "e">>, <<"W", "e", "d">>, <<"T", "h", "u">>, <<"F", "r", "i">>, <<"S", "a", "t">>>>

\* WeatherAPI.getDayName(date): days[date.getDay()]
getDayName(date) ==
    LET k == GetDay(date) IN IF k.t = "num" THEN JStr(days[k.n + 1]) ELSE JUndef

\* Number.prototype.toString
NumToChars(v) == IF v.t = "num" THEN IntToChars(v.n) ELSE S_NaN

\* a formatDate that takes getMonth() for the month number
formatDateZeroBasedMonth(date) ==
    LET d == PadStart0(NumToChars(GetDate(date)), 2)
        m == PadStart0(NumToChars(GetMonth(date)), 2)
    IN  JStr(d \o <<"/">> \o m)

\* WeatherAPI.formatDate(date)
formatDate(date) ==
    LET d == PadStart0(NumToChars(GetDate(date)), 2)
        m == PadStart0(NumToChars(JsAdd(GetMonth(date), JNum(1))), 2)
    IN  JStr(d \o <<"/">> \o m)

\* a callback that advances one Date shared by all entries: entry index ends
\* 0 + 1 + ... + index days after the start
EntryDateShared(validDate, index, zone) ==
    LET date == NewDate(validDate, zone)
    IN  SetDate(date, JsAdd(GetDate(date), JNum((index * (index + 1)) \div 2)))

\* the date the map callback builds for the entry at position index (0-based)
EntryDate(validDate, index, zone) ==
    LET date == NewDate(validDate, zone)
    IN  SetDate(date, JsAdd(GetDate(date), JNum(index)))

\* a temperature that tests the parsed number: day.high is parsed first and
\* 'N/A' stands in for every falsy result
parseTempOrSentinel(v) ==
    IF Truthy(v) /\ Truthy(ParseInt(v)) THEN ParseInt(v) ELSE JStr(S_NA)

\* lines 99-100: day.high ? parseInt(day.high) : 'N/A', and the same for low
parseTemp(v) == IF Truthy(v) THEN ParseInt(v) ELSE JStr(S_NA)

\* the callback of forecast.map: the record of one day, or what it throws
MapDay(day, index, validDate, zone) ==
    IF Nullish(day)
    THEN Throw(JsError("TypeError", <<"Cannot read properties of ", day.t, " (reading 'text')">>))
    ELSE
    LET date == EntryDate(validDate, index, zone)
        text == Get(day, "text")
        high == Get(day, "high")
        low == Get(day, "low")
        wind == Get(day, "wind")
        emoji == getWeatherEmoji(text)
    IN  IF ~emoji.ok THEN emoji
        ELSE Return([date |-> date,
                     dayName |-> getDayName(date),
                     dateStr |-> formatDate(date),
                     condition |-> text,
                     high |-> parseTemp(high),
                     low |-> parseTemp(low),
                     emoji |-> emoji.value,
                     wind |-> IF Truthy(wind)
                              THEN JStr(ToChars(Get(wind, "direction")) \o <<" ">>
                                        \o ToChars(Get(wind, "speed")))
                              ELSE JStr(S_NA)])

\* a guard that tests only for a missing items field
NoItemsFieldOnly(d) == ~Truthy(Get(d, "items"))

\* the guard of line 83: data has no items, or an empty list of them
NoItems(d) == ~Truthy(Get(d, "items")) \/ Len(Get(d, "items").a) = 0

\* an indexing that counts from the end: index 0 is the latest element
AtFromEnd(array, index) ==
    IF index < Len(array.a) THEN array.a[Len(array.a) - index] ELSE JUndef

\* array[index] for a 0-based index: undefined past the end
At(array, index) == IF index < Len(array.a) THEN array.a[index + 1] ELSE JUndef

\* WeatherAPI.parseForecast(data) in a browser of time zone `zone`: Return of
\* the sequence of day records, or Throw of the error it raises
parseForecastIn(d, zone) ==
    IF Nullish(d)
    THEN Throw(JsError("TypeError", <<"Cannot read properties of ", d.t, " (reading 'items')">>))
    ELSE IF NoItems(d) THEN Return(<<>>)
    ELSE
    LET item == At(Get(d, "items"), 0) IN
    IF Nullish(item)
    THEN Throw(JsError("TypeError", <<"Cannot read properties of ", item.t, " (reading 'forecast')">>))
    ELSE
    LET forecast == Get(item, "forecast")
        valid_period == Get(item, "valid_period")
    IN
    IF Nullish(valid_period)
    THEN Throw(JsError("TypeError", <<"Cannot read properties of ", valid_period.t, " (reading 'start')">>))
    ELSE IF Nullish(forecast)
    THEN Throw(JsError("TypeError", <<"Cannot read properties of ", forecast.t, " (reading 'map')">>))
    ELSE
    LET validDate == Get(valid_period, "start")
        mapped == [i \in 1..Len(forecast.a) |-> MapDay(forecast.a[i], i - 1, validDate, zone)]
        thrown == {i \in 1..Len(forecast.a) : ~mapped[i].ok}
    IN  IF thrown # {}
        THEN mapped[CHOOSE i \in thrown : \A j \in thrown : i <= j]
        ELSE Return([i \in 1..Len(forecast.a) |-> mapped[i].value])

\* WeatherAPI.parseForecast(data)
parseForecast(d) == parseForecastIn(d, tz)

-----------------------------------------------------------------------------
(* WeatherAPI.fetch4DayForecast and initWeather *)

\* an ok test that forgets the upper end of the success range
ResponseOkNoUpperEnd(status) == status >= 200

\* response.ok
ResponseOk(status) == status >= 200 /\ status <= 299

\* an error for a response that is not ok that leaves the status out
ApiErrorWithoutStatus(status) == JsError("Error", <<"API error">>)

\* the error thrown at line 68 for a response that is not ok
ApiError(status) == JsError("Error", <<"API error: ", status>>)

\* what fetch() rejects with on a transport failure
FetchFailure == JsError("TypeError", <<"Failed to fetch">>)

\* what response.json() rejects with on a body that is not JSON
JsonFailure == JsError("SyntaxError", <<"Unexpected token in JSON">>)

\* a fetch4DayForecast whose catch swallows the failure and returns an empty
\* response in its place
fetch4DayForecastFallsBack(answer) ==
    IF answer.kind = "failed" \/ ~ResponseOk(answer.status) \/ ~answer.body.valid
    THEN Return(JObj(<<>>))
    ELSE Return(answer.body.value)

\* how fetch4DayForecast settles once fetch() has settled with `answer`
\* ([kind |-> "failed"] or [kind |-> "response", status, body]) and, for an ok
\* response, response.json() has settled: Return(data) or Throw(error).
\* The catch at line 71 logs and rethrows the same error.
fetch4DayForecast(answer) ==
    IF answer.kind = "failed" THEN Throw(FetchFailure)
    ELSE IF ~ResponseOk(answer.status) THEN Throw(ApiError(answer.status))
    ELSE IF ~answer.body.valid THEN Throw(JsonFailure)
    ELSE Return(answer.body.value)

\* the visual block of one day record (lines 150-162), as its texts
Card(day) ==
    [title |-> <<"Weather: ">> \o ToChars(day.condition),
     dayName |-> ToChars(day.dayName),
     dateStr |-> ToChars(day.dateStr),
     icon |-> ToChars(day.emoji),
     temp |-> ToChars(day.high) \o <<"deg", "C">>,
     tempRange |-> <<"Low: ">> \o ToChars(day.low) \o <<"deg", "C">>,
     condition |-> ToChars(day.condition)]

\* the fixed markup of the template of lines 150-162, one piece for each run
\* of text between two interpolations (white space between tags left out)
DayOpen == "<div class=\"weather-day\" title=\""
TitleEnd == "\">"
NameOpen == "<div class=\"weather-day-name\">"
DateOpen == "<div class=\"weather-day-date\">"
IconOpen == "<div class=\"weather-icon\">"
TempOpen == "<div class=\"weather-temp\">"
RangeOpen == "<div class=\"weather-temp-range\">"
ConditionOpen == "<div class=\"weather-condition\">"
DivClose == "</div>"

\* the class each opening piece of the template gives its element
FieldClass ==
    [piece \in {NameOpen, DateOpen, IconOpen, TempOpen, RangeOpen, ConditionOpen} |->
        CASE piece = NameOpen -> "weather-day-name"
          [] piece = DateOpen -> "weather-day-date"
          [] piece = IconOpen -> "weather-icon"
          [] piece = TempOpen -> "weather-temp"
          [] piece = RangeOpen -> "weather-temp-range"
          [] piece = ConditionOpen -> "weather-condition"]

\* the string the template literal of lines 150-162 gives for one day record:
\* the pieces of markup with the texts of the record between them, unescaped
CardHtml(day) ==
    <<DayOpen>> \o Card(day).title \o <<TitleEnd>>
    \o <<NameOpen>> \o Card(day).dayName \o <<DivClose>>
    \o <<DateOpen>> \o Card(day).dateStr \o <<DivClose>>
    \o <<IconOpen>> \o Card(day).icon \o <<DivClose>>
    \o <<TempOpen>> \o Card(day).temp \o <<DivClose>>
    \o <<RangeOpen>> \o Card(day).tempRange \o <<DivClose>>
    \o <<ConditionOpen>> \o Card(day).condition \o <<DivClose>>
    \o <<DivClose>>

RECURSIVE InnerHtmlFrom(_, _)
InnerHtmlFrom(forecast, i) ==
    IF i > Len(forecast) THEN <<>>
    ELSE CardHtml(forecast[i]) \o InnerHtmlFrom(forecast, i + 1)

\* forecast.map(day => `...`).join('') of lines 150-163
InnerHtml(forecast) == InnerHtmlFrom(forecast, 1)

\* the name of the elements of the template
Div == <<"d", "i", "v">>

\* the letters that can start the name of a tag
TagStart ==
    {"a", "b", "c", "d", "e", "f", "g", "h", "i", "j", "k", "l", "m", "n", "o",
     "p", "q", "r", "s", "t", "u", "v", "w", "x", "y", "z", "/"}

\* a block of the forecast container: an element of class weather-day with
\* its title and, for each class of the template, the text shown inside the
\* elements of that class
NewBlock(title) ==
    [title |-> title, dayName |-> <<>>, dateStr |-> <<>>, icon |-> <<>>,
     temp |-> <<>>, tempRange |-> <<>>, condition |-> <<>>]

\* the browser's HTML parser before the first character: no element open
ParserStart ==
    [mode |-> "text", stack |-> <<>>, blocks |-> <<>>, title |-> <<>>, tag |-> <<>>]

\* the position in the stack of open elements of the innermost element named
\* `name`, 0 for none
Innermost(stack, name) ==
    IF \E q \in 1..Len(stack) : stack[q].name = name
    THEN CHOOSE q \in 1..Len(stack) :
            stack[q].name = name /\ \A r \in (q + 1)..Len(stack) : stack[r].name # name
    ELSE 0

\* an end tag closes the innermost open element of its name and what is open
\* inside it; with no such element it is ignored
CloseElement(stack, name) ==
    IF Innermost(stack, name) = 0 THEN stack
    ELSE SubSeq(stack, 1, Innermost(stack, name) - 1)

\* the innermost open element; every open element records the block it is
\* in, 0 for none, and the classes of the elements open around it in the block
NoElement == [block |-> 0, classes |-> {}]

Top(stack) ==
    IF Len(stack) = 0 THEN NoElement
    ELSE [block |-> stack[Len(stack)].block, classes |-> stack[Len(stack)].classes]

\* an element of a start tag other than a block's, as pushed on the stack
Element(stack, name, class) ==
    [name |-> name, block |-> Top(stack).block, classes |-> Top(stack).classes \cup {class}]

\* a character of text is shown in every open element: it joins the text of
\* each class open inside the innermost open block
ShowText(st, item) ==
    IF Top(st.stack).block = 0 THEN st
    ELSE [st EXCEPT
            !.blocks[Top(st.stack).block].dayName =
                IF "weather-day-name" \in Top(st.stack).classes THEN Append(@, item) ELSE @,
            !.blocks[Top(st.stack).block].dateStr =
                IF "weather-day-date" \in Top(st.stack).classes THEN Append(@, item) ELSE @,
            !.blocks[Top(st.stack).block].icon =
                IF "weather-icon" \in Top(st.stack).classes THEN Append(@, item) ELSE @,
            !.blocks[Top(st.stack).block].temp =
                IF "weather-temp" \in Top(st.stack).classes THEN Append(@, item) ELSE @,
            !.blocks[Top(st.stack).block].tempRange =
                IF "weather-temp-range" \in Top(st.stack).classes THEN Append(@, item) ELSE @,
            !.blocks[Top(st.stack).block].condition =
                IF "weather-condition" \in Top(st.stack).classes THEN Append(@, item) ELSE @]

\* the start tag of a weather-day element is complete: a new block is open
OpenDay(st) ==
    [st EXCEPT !.mode = "text",
               !.blocks = Append(@, NewBlock(st.title)),
               !.stack = Append(@, [name |-> Div, block |-> Len(st.blocks) + 1,
                                    classes |-> {}])]

\* one step of the browser's HTML parser over the string assigned to
\* innerHTML: `item` is the next piece or character, `next` the one after it
ParseStep(st, item, next) ==
    CASE st.mode = "text" ->
            IF item = DayOpen THEN [st EXCEPT !.mode = "attr", !.title = <<>>]
            ELSE IF item \in DOMAIN FieldClass
            THEN [st EXCEPT !.stack = Append(@, Element(st.stack, Div, FieldClass[item]))]
            ELSE IF item = DivClose
            THEN [st EXCEPT !.stack = CloseElement(@, Div)]
            ELSE IF item = "<" /\ next \in TagStart
            THEN [st EXCEPT !.mode = "tag", !.tag = <<>>]
            ELSE ShowText(st, item)
      [] st.mode = "attr" ->
            \* inside the quoted value of the title attribute
            IF item = TitleEnd THEN OpenDay(st)
            ELSE IF item = "\"" THEN [st EXCEPT !.mode = "tagrest"]
            ELSE [st EXCEPT !.title = Append(@, item)]
      [] st.mode = "tagrest" ->
            \* inside the start tag after the title's closing quote
            IF item = TitleEnd \/ item = ">" THEN OpenDay(st) ELSE st
      [] st.mode = "tag" ->
            \* inside a tag written in a text
            IF item # ">" THEN [st EXCEPT !.tag = Append(@, item)]
            ELSE IF Len(st.tag) > 0 /\ st.tag[1] = "/"
            THEN [st EXCEPT !.mode = "text", !.stack = CloseElement(@, Tail(st.tag))]
            ELSE [st EXCEPT !.mode = "text",
                            !.stack = Append(@, Element(st.stack, st.tag, ""))]

RECURSIVE ParseHtmlBetween(_, _, _, _)
\* the parser's steps over html[lo..hi], from the first to the last
ParseHtmlBetween(html, lo, hi, st) ==
    IF lo > hi THEN st
    ELSE IF lo = hi
    THEN ParseStep(st, html[lo], IF lo < Len(html) THEN html[lo + 1] ELSE "")
    ELSE CHOOSE after \in
            {ParseHtmlBetween(html, ((lo + hi) \div 2) + 1, hi, half) :
                half \in {ParseHtmlBetween(html, lo, (lo + hi) \div 2, st)}} : TRUE

\* the blocks of the forecast container after `html` is assigned to its
\* innerHTML (line 150)
ParseHtml(html) ==
    CHOOSE blocks \in
        {ParseHtmlBetween(string, 1, Len(string), ParserStart).blocks : string \in {html}} : TRUE

\* a try block without the check of line 142: an empty forecast is rendered
InitWeatherTryRendersEmpty(fetched) ==
    IF ~fetched.ok THEN fetched ELSE parseForecast(fetched.value)

\* the try block of initWeather up to line 144, given how fetch4DayForecast
\* settled: Return(forecast) or Throw(error)
InitWeatherTry(fetched) ==
    IF ~fetched.ok THEN fetched
    ELSE LET forecast == parseForecast(fetched.value) IN
         IF ~forecast.ok THEN forecast
         ELSE IF Len(forecast.value) = 0
              THEN Throw(JsError("Error", <<"No forecast data available">>))
              ELSE forecast

\* a catch clause that takes only the errors initWeather and the fetch throw
\* themselves, and lets a TypeError or SyntaxError of the platform pass
CatchesOwnErrorsOnly(error) == error.name = "Error"

\* whether the catch clause of initWeather (line 165) takes the error
InitWeatherCatches(error) == TRUE

\* the flow's state: idle, loading, rendered or errored
FlowState ==
    IF pc = "idle" THEN "idle"
    ELSE IF pc # "done" THEN "loading"
    ELSE IF errorDisplay = "block" THEN "errored"
    ELSE "rendered"

\* errorEl.textContent of line 169
ErrorMessage(error) ==
    <<"Unable to load weather forecast: ">> \o error.message
        \o <<". This is a real-time API call - ensure CORS is enabled or use a proxy server.">>

-----------------------------------------------------------------------------
(* The inputs: responses of the forecast endpoint and browsers *)

\* time zones of the browser: Singapore, UTC, US Pacific
Zones == {8, 0, -8}

\* the time zones of the browsers of the flow
FlowZones == {8, -8}

\* HTTP statuses of a response, inside and outside the success range
Statuses == {200, 299, 300, 500}

IsoDate(y, mo, d) == [t |-> "isodate", y |-> y, mo |-> mo, d |-> d]
IsoDateTime(y, mo, d, h, off) ==
    [t |-> "iso", y |-> y, mo |-> mo, d |-> d, h |-> h, off |-> off]

\* a day entry with all its fields, as the endpoint sends it
DaySunny ==
    JObj([text |-> JStr(<<"S", "u", "n", "n", "y">>), high |-> JStr(<<"3", "1">>), low |-> JStr(<<"2", "5">>),
          wind |-> JObj([direction |-> JStr(<<"N", "E">>),
                         speed |-> JStr(<<"1", "5", " ", "-", " ", "2", "5">>)])])

\* a day entry with the optional fields left out
DayBare == JObj([text |-> JStr(<<"F", "a", "i", "r", " ", "a", "n", "d", " ", "w", "a", "r", "m">>)])

\* a day entry of an unexpected shape: the condition is a number
DayOdd == JObj([text |-> JNum(7), high |-> JStr(<<"3", "0">>)])

\* a day entry whose condition text holds markup, with no low
DayMarkup ==
    JObj([text |-> JStr(<<"<", "i", ">", "H", "a", "z", "y", "<", "/", "i", ">">>),
          high |-> JStr(<<"2", "9">>)])

\* a day entry whose wind descriptor lacks its speed, with a high of zero
\* and a low below zero
DayHalfWind ==
    JObj([text |-> JStr(<<"L", "i", "g", "h", "t", " ", "r", "a", "i", "n">>),
          high |-> JStr(<<"0">>), low |-> JStr(<<"-", "2">>),
          wind |-> JObj([direction |-> JStr(<<"S">>)])])

RECURSIVE SeqsUpTo(_, _)
\* the sequences over S of length at most n
SeqsUpTo(S, n) ==
    IF n = 0 THEN {<<>>}
    ELSE LET shorter == SeqsUpTo(S, n - 1)
         IN  shorter \cup {Append(q, x) : q \in {r \in shorter : Len(r) = n - 1}, x \in S}

\* a later item of the response, which differs from every first item
LaterItem ==
    JObj([forecast |-> JArr(<<DayBare>>),
          valid_period |-> JObj([start |-> IsoDate(2020, 1, 1)])])

\* the forecast items with per-day entries from Days and validity start from
\* Starts, the forecast or the validity period possibly absent
Items(Days, Starts) ==
    {JObj([forecast |-> f, valid_period |-> p]) :
        f \in {JUndef} \cup {JArr(a) : a \in SeqsUpTo(Days, MaxDays)},
        p \in {JUndef} \cup {JObj([start |-> v]) : v \in Starts}}

\* the JSON values a response body can hold: null, a mapping without items,
\* and mappings whose items are a first item followed by one of Later
Bodies(Days, Starts, Later) ==
    {JNull, JObj(<<>>), JObj([items |-> JArr(<<>>)])}
    \cup {JObj([items |-> JArr(<<it>> \o rest)]) : it \in Items(Days, Starts), rest \in Later}

\* validity starts of the responses of the flow
FlowStarts == {JUndef, IsoDateTime(2025, 12, 7, 0, 8), IsoDate(2025, 12, 30)}

\* validity starts for parseForecast alone: date-time and date-only strings
\* before month ends, a year end and the end of February, a string that is no
\* date, and none
ParseStarts ==
    {JUndef, JStr(<<"s", "o", "o", "n">>)}
    \cup {IsoDateTime(dt[1], dt[2], dt[3], 0, 8) :
            dt \in {<<2025, 12, 7>>, <<2025, 12, 30>>, <<2024, 2, 27>>, <<2025, 2, 27>>,
                    <<2025, 1, 5>>, <<2025, 4, 29>>}}
    \cup {IsoDate(dt[1], dt[2], dt[3]) :
            dt \in {<<2025, 12, 7>>, <<2025, 12, 31>>, <<2024, 2, 29>>, <<2025, 1, 1>>}}

FlowDays == {DaySunny, DayMarkup}

ParseDays == {DaySunny, DayBare, DayHalfWind}

\* the bodies of the responses of the flow: JSON values, or text that is no JSON
FlowBodies ==
    {[valid |-> FALSE]} \cup {[valid |-> TRUE, value |-> v] : v \in Bodies(FlowDays, FlowStarts, {<<>>})}

\* a response whose second per-day entry has a number for its condition
OddBody ==
    JObj([items |-> JArr(<<JObj([forecast |-> JArr(<<DaySunny, DayOdd>>),
                                 valid_period |-> JObj([start |-> IsoDate(2025, 12, 7)])])>>)])

\* the arguments of parseForecast
RawBodies == Bodies(ParseDays, ParseStarts, {<<>>, <<LaterItem>>}) \cup {OddBody}

-----------------------------------------------------------------------------
(* The events of the app: the sample dataset, the grid and the handlers *)

\* ShoreSquadData.events as declared: the fields the handlers read or write
\* (date, time, location, target and description are only shown)
SampleEvents == <<
    [id |-> 1, title |-> "Pasir Ris Beach Cleanup", participants |-> 12, registered |-> TRUE],
    [id |-> 2, title |-> "East Coast Park Cleanup", participants |-> 8, registered |-> FALSE],
    [id |-> 3, title |-> "Changi Beach Restoration", participants |-> 15, registered |-> FALSE],
    [id |-> 4, title |-> "Semakau Island Cleanup", participants |-> 20, registered |-> FALSE]
>>

\* the values of data-filter of the filter buttons
Filters == {"all", "upcoming", "registered"}

\* the titles typed into the dialog
Titles == {"Sunset Beach Cleanup", ""}

\* one card of the grid: what it shows of its event and the id its button passes
EventCard(event) ==
    [id |-> event.id, title |-> event.title, participants |-> event.participants,
     label |-> IF event.registered THEN "Registered" ELSE "Register"]

NotRegistered(event) == ~event.registered
Registered(event) == event.registered

\* renderEvents(filter): the cards written to grid.innerHTML
renderEvents(dataset, filter) ==
    LET filtered ==
            IF filter = "upcoming" THEN SelectSeq(dataset, NotRegistered)
            ELSE IF filter = "registered" THEN SelectSeq(dataset, Registered)
            ELSE dataset
    IN  [i \in 1..Len(filtered) |-> EventCard(filtered[i])]

\* a registration that only ever adds a participant
ToggleAlwaysJoins(event) ==
    [event EXCEPT !.registered = ~@, !.participants = @ + 1]

\* the two assignments of handleEventRegister to the event found
Toggle(event) ==
    [event EXCEPT !.registered = ~@,
                  !.participants = @ + (IF ~event.registered THEN 1 ELSE -1)]

\* ShoreSquadData.events.find(e => e.id === eventId): the position of the
\* first event of that id, 0 for undefined
Find(dataset, eventId) ==
    IF \E i \in 1..Len(dataset) : dataset[i].id = eventId
    THEN CHOOSE i \in 1..Len(dataset) :
            dataset[i].id = eventId /\ \A j \in 1..(i - 1) : dataset[j].id # eventId
    ELSE 0

\* Math.max(...ids, 0)
MaxId(dataset) ==
    CHOOSE m \in {0} \cup {dataset[i].id : i \in 1..Len(dataset)} :
        \A i \in 1..Len(dataset) : dataset[i].id <= m

\* an id that is the largest one in use
NextIdReusesLargest(dataset) == MaxId(dataset)

\* the id of a new event
NextId(dataset) == MaxId(dataset) + 1

\* the event the 'Create Event' callback builds from the dialog
NewEvent(dataset, title) ==
    [id |-> NextId(dataset), title |-> title, participants |-> 1, registered |-> TRUE]

NoToast == [kind |-> "none"]

\* the page after initEvents: the sample dataset, all of it rendered
EventsInit ==
    /\ events = SampleEvents
    /\ grid = renderEvents(SampleEvents, "all")
    /\ activeFilter = "all"
    /\ modals = 0
    /\ toast = NoToast

-----------------------------------------------------------------------------
(* The page: the top-level statement of weather.js and the run of initWeather *)

NoAnswer == [kind |-> "none"]
NotCalled == [called |-> FALSE]
NoCall == [fn |-> "none"]
Pending == [settled |-> FALSE]

FlowInit ==
    /\ readyState = "loading"
    /\ scriptRun = FALSE
    /\ listener = FALSE
    /\ pc = "idle"
    /\ runs = 0
    /\ fetchCalls = 0
    /\ requests = 0
    /\ net = NoAnswer
    /\ response = NoAnswer
    /\ fetchResult = Pending
    /\ settled = "none"
    /\ loadingDisplay = ""
    /\ errorDisplay = ""
    /\ errorText = <<>>
    /\ forecastHTML = <<>>
    /\ loadingWrites = 0
    /\ renderWrites = 0
    /\ errorWrites = 0
    /\ consoleErrors = 0

Init ==
    /\ tz \in FlowZones
    /\ FlowInit
    /\ EventsInit
    /\ data = JUndef
    /\ parsed = NotCalled
    /\ call = NoCall
    /\ ret = NotCalled

flowVars == <<readyState, scriptRun, listener, pc, runs, fetchCalls, requests, net,
              response, fetchResult, settled, loadingDisplay, errorDisplay, errorText,
              forecastHTML, loadingWrites, renderWrites, errorWrites, consoleErrors>>

domVars == <<loadingDisplay, errorDisplay, errorText, forecastHTML, loadingWrites,
             renderWrites, errorWrites>>

\* initWeather() up to its first suspension: lines 133-139, into
\* fetch4DayForecast up to the await of fetch() at line 66
EnterInitWeather ==
    /\ runs' = runs + 1
    /\ fetchCalls' = fetchCalls + 1
    /\ requests' = requests + 1
    /\ pc' = "awaitFetch"
    /\ settled' = "pending"
    /\ UNCHANGED <<net, response, fetchResult, consoleErrors>>
    /\ UNCHANGED domVars

\* a top-level statement that registers the listener and calls initWeather too
RunScriptListensAndCalls ==
    /\ ~scriptRun
    /\ scriptRun' = TRUE
    /\ listener' = (readyState = "loading")
    /\ EnterInitWeather
    /\ UNCHANGED <<tz, readyState, data, parsed, call, ret, eventVars>>

\* a top-level statement that always waits for DOMContentLoaded, also when the
\* document has been parsed already
RunScriptListensOnly ==
    /\ ~scriptRun
    /\ scriptRun' = TRUE
    /\ listener' = TRUE
    /\ UNCHANGED <<pc, runs, fetchCalls, requests, net, response, fetchResult,
                   settled, consoleErrors>>
    /\ UNCHANGED domVars
    /\ UNCHANGED <<tz, readyState, data, parsed, call, ret, eventVars>>

\* lines 174-178: the script is evaluated, while the document is still being
\* parsed or after that
RunScript ==
    /\ ~scriptRun
    /\ scriptRun' = TRUE
    /\ IF readyState = "loading"
       THEN /\ listener' = TRUE
            /\ UNCHANGED <<pc, runs, fetchCalls, requests, net, response, fetchResult,
                           settled, consoleErrors>>
            /\ UNCHANGED domVars
       ELSE /\ EnterInitWeather
            /\ UNCHANGED listener
    /\ UNCHANGED <<tz, readyState, data, parsed, call, ret, eventVars>>

\* the document has been parsed: readyState leaves 'loading' and the
\* DOMContentLoaded listeners run, once
DOMContentLoaded ==
    /\ readyState = "loading"
    /\ readyState' = "interactive"
    /\ IF listener
       THEN EnterInitWeather
       ELSE /\ UNCHANGED <<pc, runs, fetchCalls, requests, net, response, fetchResult,
                           settled, consoleErrors>>
            /\ UNCHANGED domVars
    /\ UNCHANGED <<tz, scriptRun, listener, data, parsed, call, ret, eventVars>>

\* a catch clause without line 167: the loading indicator is left as it is
CatchViewKeepsLoading(error) ==
    [logs |-> 1, loadingWrites |-> 0, loadingDisplay |-> "",
     errorDisplay |-> "block", errorWrites |-> 1, errorText |-> ErrorMessage(error)]

\* the catch clause, lines 166-169: the writes it makes to the page
CatchView(error) ==
    [logs |-> 1, loadingWrites |-> 1, loadingDisplay |-> "none",
     errorDisplay |-> "block", errorWrites |-> 1, errorText |-> ErrorMessage(error)]

\* the rest of the run once fetch4DayForecast has settled with `fetched`:
\* lines 140-170; logged counts the console.error of line 72
FinishInitWeather(fetched, logged) ==
    \E tried \in {InitWeatherTry(fetched)} :
    /\ fetchResult' = [settled |-> TRUE, outcome |-> fetched]
    /\ pc' = "done"
    /\ response' = NoAnswer
    /\ IF tried.ok
       THEN /\ loadingDisplay' = "none"
            /\ loadingWrites' = loadingWrites + 1
            /\ forecastHTML' = ParseHtml(InnerHtml(tried.value))
            /\ renderWrites' = renderWrites + 1
            /\ consoleErrors' = consoleErrors + logged
            /\ settled' = "fulfilled"
            /\ UNCHANGED <<errorDisplay, errorText, errorWrites>>
       ELSE IF InitWeatherCatches(tried.error)
       THEN /\ consoleErrors' = consoleErrors + logged + CatchView(tried.error).logs
            /\ loadingDisplay' =
                   IF CatchView(tried.error).loadingWrites > 0
                   THEN CatchView(tried.error).loadingDisplay ELSE loadingDisplay
            /\ loadingWrites' = loadingWrites + CatchView(tried.error).loadingWrites
            /\ errorDisplay' = CatchView(tried.error).errorDisplay
            /\ errorText' = CatchView(tried.error).errorText
            /\ errorWrites' = errorWrites + CatchView(tried.error).errorWrites
            /\ settled' = "fulfilled"
            /\ UNCHANGED <<forecastHTML, renderWrites>>
       ELSE /\ consoleErrors' = consoleErrors + logged
            /\ settled' = "rejected"
            /\ UNCHANGED domVars

\* fetch() rejects: no response arrived
FetchRejects ==
    /\ pc = "awaitFetch"
    /\ net' = [kind |-> "failed"]
    /\ FinishInitWeather(fetch4DayForecast(net'), 1)
    /\ UNCHANGED <<tz, readyState, scriptRun, listener, runs, fetchCalls, requests,
                   data, parsed, call, ret, eventVars>>

\* fetch() resolves with a response: line 67 throws on a status that is not
\* ok, else line 70 calls response.json() and suspends again
FetchResponds ==
    /\ pc = "awaitFetch"
    /\ \E status \in Statuses, body \in FlowBodies :
        /\ net' = [kind |-> "response", status |-> status, body |-> body]
        /\ IF ResponseOk(status)
           THEN /\ pc' = "awaitJson"
                /\ response' = net'
                /\ UNCHANGED <<fetchResult, settled, consoleErrors>>
                /\ UNCHANGED domVars
           ELSE FinishInitWeather(fetch4DayForecast(net'), 1)
    /\ UNCHANGED <<tz, readyState, scriptRun, listener, runs, fetchCalls, requests,
                   data, parsed, call, ret, eventVars>>

\* response.json() settles: the body parsed, or a SyntaxError
JsonSettles ==
    /\ pc = "awaitJson"
    /\ FinishInitWeather(fetch4DayForecast(response),
                         IF response.body.valid THEN 0 ELSE 1)
    /\ UNCHANGED <<tz, readyState, scriptRun, listener, runs, fetchCalls, requests,
                   net, data, parsed, call, ret, eventVars>>

Next ==
    \/ RunScript
    \/ DOMContentLoaded
    \/ FetchRejects
    \/ FetchResponds
    \/ JsonSettles

Spec == Init /\ [][Next]_vars

-----------------------------------------------------------------------------
(* parseForecast alone, on every raw response of RawBodies *)

ParseInit ==
    /\ tz \in Zones
    /\ FlowInit
    /\ EventsInit
    /\ data \in RawBodies
    /\ parsed = NotCalled
    /\ call = NoCall
    /\ ret = NotCalled

\* a call parseForecast(data)
Normalize ==
    /\ ~parsed.called
    /\ parsed' = [called |-> TRUE, out |-> parseForecast(data)]
    /\ UNCHANGED <<tz, data, call, ret, eventVars>>
    /\ UNCHANGED flowVars

ParseNext == Normalize

SpecParse == ParseInit /\ [][ParseNext]_vars

-----------------------------------------------------------------------------
(* The helpers of WeatherAPI alone: getWeatherEmoji, formatDate, getDayName *)

\* condition texts other than the keys of the table
OtherConditions == {
    <<"s", "u", "n", "n", "y", " ", "d", "a", "y", " ", "a", "h", "e", "a", "d">>,
    <<"p", "a", "r", "t", "l", "y", " ", "c", "l", "o", "u", "d", "y", " ", "w", "i", "t", "h", " ", "l", "i", "g", "h", "t", " ", "r", "a", "i", "n">>,
    <<"L", "i", "g", "h", "t", " ", "r", "a", "i", "n", ",", " ", "l", "a", "t", "e", "r", " ", "p", "a", "r", "t", "l", "y", " ", "c", "l", "o", "u", "d", "y">>,
    <<"q", "u", "a", "n", "t", "u", "m", " ", "w", "e", "a", "t", "h", "e", "r">>,
    <<>>,
    <<"S", "U", "N", "N", "Y">>,
    <<"T", "h", "u", "n", "d", "e", "r", "y", " ", "S", "h", "o", "w", "e", "r", "s">>,
    <<"P", "a", "s", "s", "i", "n", "g", " ", "s", "h", "o", "w", "e", "r", "s">>,
    <<"F", "a", "i", "r", " ", "(", "D", "a", "y", ")">>,
    <<"H", "e", "a", "v", "y", " ", "t", "h", "u", "n", "d", "e", "r", "y", " ", "s", "h", "o", "w", "e", "r", "s", " ", "w", "i", "t", "h", " ", "g", "u", "s", "t", "y", " ", "w", "i", "n", "d", "s">>,
    <<"c", "o", "n", "s", "t", "r", "u", "c", "t", "o", "r">>,
    <<"t", "o", "S", "t", "r", "i", "n", "g">>,
    <<"f", "o", "g", "g", "y", " ", "a", "n", "d", " ", "m", "i", "s", "t", "y">>
}

\* the arguments of getWeatherEmoji: every key of the table, other texts, an
\* absent condition, null, and a condition that is no text
Conditions ==
    {JStr(weatherEmoji[i][1]) : i \in 1..Len(weatherEmoji)}
    \cup {JStr(c) : c \in OtherConditions}
    \cup {JUndef, JNull, JNum(7)}

\* the years of the dates the date helpers are called with
Years == {2024, 2025}

\* the arguments of formatDate and getDayName: every day of Years, at
\* midnight, and the Invalid Date
Dates ==
    {InvalidDate}
    \cup {dt \in {MkDate(y, m, d, 0) : y \in Years, m \in 0..11, d \in 1..31} :
            dt.d <= DaysInMonth(dt.y, dt.m)}

HelperInit ==
    /\ tz \in FlowZones
    /\ FlowInit
    /\ EventsInit
    /\ data = JUndef
    /\ parsed = NotCalled
    /\ call \in {[fn |-> "getWeatherEmoji", arg |-> c] : c \in Conditions}
           \cup {[fn |-> "formatDate", arg |-> d] : d \in Dates}
           \cup {[fn |-> "getDayName", arg |-> d] : d \in Dates}
    /\ ret = NotCalled

\* a call WeatherAPI.getWeatherEmoji(condition)
CallGetWeatherEmoji ==
    /\ call.fn = "getWeatherEmoji" /\ ~ret.called
    /\ ret' = [called |-> TRUE, out |-> getWeatherEmoji(call.arg)]
    /\ UNCHANGED <<tz, data, parsed, call, eventVars>>
    /\ UNCHANGED flowVars

\* a call WeatherAPI.formatDate(date)
CallFormatDate ==
    /\ call.fn = "formatDate" /\ ~ret.called
    /\ ret' = [called |-> TRUE, out |-> Return(formatDate(call.arg))]
    /\ UNCHANGED <<tz, data, parsed, call, eventVars>>
    /\ UNCHANGED flowVars

\* a call WeatherAPI.getDayName(date)
CallGetDayName ==
    /\ call.fn = "getDayName" /\ ~ret.called
    /\ ret' = [called |-> TRUE, out |-> Return(getDayName(call.arg))]
    /\ UNCHANGED <<tz, data, parsed, call, eventVars>>
    /\ UNCHANGED flowVars

HelperNext ==
    \/ CallGetWeatherEmoji
    \/ CallFormatDate
    \/ CallGetDayName

SpecHelpers == HelperInit /\ [][HelperNext]_vars

-----------------------------------------------------------------------------
(* The events page: filter buttons, registration and the 'Create Event' dialog *)

\* the ids a Register button or a caller can pass: those of the events, and
\* two of no event
RegisterIds == 0..(Len(SampleEvents) + MaxCreated + 1)

EventsPageInit ==
    /\ tz = 8
    /\ FlowInit
    /\ EventsInit
    /\ data = JUndef
    /\ parsed = NotCalled
    /\ call = NoCall
    /\ ret = NotCalled

\* a click on a filter button: the listener of setupEventFilters
FilterClick ==
    \E filter \in Filters :
        /\ activeFilter' = filter
        /\ grid' = renderEvents(events, filter)
        /\ call' = [fn |-> "filterClick", arg |-> filter, before |-> events]
        /\ UNCHANGED <<events, modals, toast>>
        /\ UNCHANGED <<tz, data, parsed, ret>>
        /\ UNCHANGED flowVars

\* handleEventRegister(eventId)
HandleEventRegister ==
    \E eventId \in RegisterIds :
        /\ call' = [fn |-> "handleEventRegister", arg |-> eventId, before |-> events]
        /\ IF Find(events, eventId) # 0
           THEN /\ events' = [events EXCEPT ![Find(events, eventId)] = Toggle(@)]
                /\ grid' = renderEvents(events', "all")
                /\ toast' = [kind |-> IF events'[Find(events, eventId)].registered
                                      THEN "Registered for" ELSE "Unregistered from",
                             title |-> events[Find(events, eventId)].title]
           ELSE UNCHANGED <<events, grid, toast>>
        /\ UNCHANGED <<activeFilter, modals>>
        /\ UNCHANGED <<tz, data, parsed, ret>>
        /\ UNCHANGED flowVars

\* handleCreateEvent(): a click on the create button opens the dialog
HandleCreateEvent ==
    /\ modals < MaxModals
    /\ modals' = modals + 1
    /\ call' = [fn |-> "handleCreateEvent", arg |-> "", before |-> events]
    /\ UNCHANGED <<events, grid, activeFilter, toast>>
    /\ UNCHANGED <<tz, data, parsed, ret>>
    /\ UNCHANGED flowVars

\* a click on 'Create Event' in the dialog: the callback, then modal.remove()
CreateEventCallback ==
    /\ modals > 0
    /\ Len(events) < Len(SampleEvents) + MaxCreated
    /\ \E title \in Titles :
        /\ events' = Append(events, NewEvent(events, title))
        /\ grid' = renderEvents(events', "all")
        /\ toast' = [kind |-> "created", title |-> title]
        /\ call' = [fn |-> "createEvent", arg |-> title, before |-> events]
    /\ modals' = modals - 1
    /\ UNCHANGED activeFilter
    /\ UNCHANGED <<tz, data, parsed, ret>>
    /\ UNCHANGED flowVars

\* a click on the dialog's close button or its overlay
CloseModal ==
    /\ modals > 0
    /\ modals' = modals - 1
    /\ call' = [fn |-> "closeModal", arg |-> "", before |-> events]
    /\ UNCHANGED <<events, grid, activeFilter, toast>>
    /\ UNCHANGED <<tz, data, parsed, ret>>
    /\ UNCHANGED flowVars

\* the timers of showNotification remove the notification
NotificationExpires ==
    /\ toast # NoToast
    /\ toast' = NoToast
    /\ call' = [fn |-> "notificationTimer", arg |-> "", before |-> events]
    /\ UNCHANGED <<events, grid, activeFilter, modals>>
    /\ UNCHANGED <<tz, data, parsed, ret>>
    /\ UNCHANGED flowVars

EventsNext ==
    \/ FilterClick
    \/ HandleEventRegister
    \/ HandleCreateEvent
    \/ CreateEventCallback
    \/ CloseModal
    \/ NotificationExpires

SpecEvents == EventsPageInit /\ [][EventsNext]_vars

-----------------------------------------------------------------------------
(* The claims about the ingestion flow, checked under Spec *)

\* the success range of HTTP statuses
InSuccessRange(status) == status \in 200..299

\* the request failed: no response, or a response outside the success range
FetchFailed ==
    \/ net.kind = "failed"
    \/ net.kind = "response" /\ ~InSuccessRange(net.status)

\* the request succeeded and its body is JSON
FetchSucceeded ==
    net.kind = "response" /\ InSuccessRange(net.status) /\ net.body.valid

\* the fetch succeeded with a forecast that normalizes to at least one day
NonEmptyForecast ==
    /\ FetchSucceeded
    /\ \E forecast \in {parseForecast(net.body.value)} :
        forecast.ok /\ Len(forecast.value) > 0

\* the fetch succeeded with a response whose items list is empty
EmptyItems ==
    /\ FetchSucceeded
    /\ net.body.value.t = "obj"
    /\ Get(net.body.value, "items").t = "arr"
    /\ Len(Get(net.body.value, "items").a) = 0

ForecastVisible == Len(forecastHTML) > 0
ErrorVisible == errorDisplay = "block"

\* C1: a run whose fetch fails writes the error display exactly once and never
\* the forecast container; a run whose fetch succeeds with a non-empty
\* forecast writes the forecast container exactly once and never the error
\* display.
C1_ErrorOrRenderOnce ==
    /\ FetchFailed => pc = "done" /\ errorWrites = 1 /\ renderWrites = 0
    /\ NonEmptyForecast =>
        /\ errorWrites = 0
        /\ renderWrites = IF pc = "done" THEN 1 ELSE 0

C1_Witness ==
    /\ pc = "done"
    /\ net.kind = "response" /\ net.status = 500 /\ net.body.valid
    /\ errorWrites = 1 /\ renderWrites = 0

\* C2: a completed run has dismissed the loading indicator exactly once, and
\* then exactly one of the forecast view and the error view is visible; a run
\* that has not completed has not dismissed it.
C2_LoadingDismissedOnce ==
    /\ pc = "done" =>
        /\ loadingWrites = 1 /\ loadingDisplay = "none"
        /\ ForecastVisible <=> ~ErrorVisible
    /\ pc # "done" => loadingWrites = 0

C2_Witness ==
    /\ pc = "done" /\ loadingWrites = 1
    /\ ForecastVisible /\ ~ErrorVisible
    /\ Len(forecastHTML) = MaxDays

FlowFailed ==
    \/ FetchFailed
    \/ net.kind = "response" /\ InSuccessRange(net.status) /\ ~net.body.valid
    \/ FetchSucceeded /\ ~parseForecast(net.body.value).ok

\* C7: initWeather never rejects, and a run in which the fetch or the
\* normalization of a malformed response failed completes fulfilled and ends
\* in the errored state.
C7_NoFailureEscapes ==
    /\ settled # "rejected"
    /\ FlowFailed /\ pc = "done" => settled = "fulfilled" /\ FlowState = "errored"

C7_Witness ==
    /\ pc = "done" /\ FetchSucceeded
    /\ ~parseForecast(net.body.value).ok
    /\ settled = "fulfilled" /\ FlowState = "errored"

\* C8: the flow goes idle -> loading -> rendered or errored and no other way;
\* from rendered or errored no step issues a request or changes the state of
\* the flow or of the page.
C8_TerminalFlow ==
    [][/\ FlowState = "idle" => FlowState' \in {"idle", "loading"}
       /\ FlowState = "loading" => FlowState' \in {"loading", "rendered", "errored"}
       /\ FlowState \in {"rendered", "errored"} =>
            /\ FlowState' = FlowState
            /\ requests' = requests
            /\ UNCHANGED <<pc, runs, fetchCalls, net, fetchResult, settled>>
            /\ UNCHANGED domVars]_vars

C8_Witness == FlowState = "rendered" /\ requests = 1 /\ listener

\* C9: every call of fetch4DayForecast issues exactly one request; after a
\* failed attempt there is no second request, and the call settles with that
\* failure, not with a value.
C9_OneRequestNoRetry ==
    /\ requests = fetchCalls
    /\ FetchFailed =>
        /\ requests = 1
        /\ fetchResult.settled /\ ~fetchResult.outcome.ok
        /\ net.kind = "failed" =>
             fetchResult.outcome.error = [name |-> "TypeError", message |-> <<"Failed to fetch">>]
        /\ net.kind = "response" => fetchResult.outcome.error.name = "Error"

C9_Witness ==
    /\ net.kind = "failed" /\ requests = 1 /\ fetchCalls = 1
    /\ fetchResult.settled /\ ~fetchResult.outcome.ok

\* C10: for a response whose status is outside the success range
\* fetch4DayForecast fails, whatever the body, and the error it raises carries
\* the status: its message is 'API error: <status>'.
C10_StatusFailureCarriesCode ==
    net.kind = "response" /\ ~InSuccessRange(net.status) =>
        /\ fetchResult.settled
        /\ ~fetchResult.outcome.ok
        /\ fetchResult.outcome.error.message = <<"API error: ", net.status>>

C10_Witness ==
    /\ net.kind = "response" /\ net.status = 300 /\ net.body.valid
    /\ fetchResult.settled /\ ~fetchResult.outcome.ok
    /\ errorText[2] = "API error: " /\ errorText[3] = 300

\* the forecast requests in flight: issued and not yet answered
InFlight == IF pc = "awaitFetch" THEN requests ELSE 0

\* C11: initWeather is started exactly once per page load, at the evaluation
\* of the script when the document is parsed already and else at
\* DOMContentLoaded, never at both; so at most one forecast request is ever
\* issued and at most one is in flight.
C11_StartedOnce ==
    /\ runs <= 1 /\ requests <= 1 /\ InFlight <= 1
    /\ scriptRun /\ readyState # "loading" => runs = 1
    /\ ~scriptRun \/ (listener /\ readyState = "loading") => runs = 0

C11_Witness ==
    /\ scriptRun /\ ~listener /\ readyState # "loading"
    /\ runs = 1 /\ pc = "awaitFetch" /\ InFlight = 1

-----------------------------------------------------------------------------
(* The claims about parseForecast, checked under SpecParse *)

\* data is a mapping with at least one item
HasFirstItem ==
    data.t = "obj" /\ Get(data, "items").t = "arr" /\ Len(Get(data, "items").a) > 0

FirstItem == Get(data, "items").a[1]

\* the first item's per-day entries and validity start
Entries == Get(FirstItem, "forecast")
Start == Get(Get(FirstItem, "valid_period"), "start")

\* every per-day entry has the shape of the wire format: a mapping whose
\* condition, if any, is text
EntriesWellFormed ==
    /\ Entries.t = "arr"
    /\ \A i \in 1..Len(Entries.a) :
        Entries.a[i].t = "obj" /\ Get(Entries.a[i], "text").t \in {"str", "undef"}

MonthLengths == <<31, 28, 31, 30, 31, 30, 31, 31, 30, 31, 30, 31>>

\* the calendar day after date
NextCalendarDay(date) ==
    LET len == IF date.m = 1 /\ date.y % 4 = 0 /\ (date.y % 100 # 0 \/ date.y % 400 = 0)
               THEN 29 ELSE MonthLengths[date.m + 1]
    IN  IF date.d < len THEN [date EXCEPT !.d = date.d + 1]
        ELSE IF date.m < 11 THEN [date EXCEPT !.m = date.m + 1, !.d = 1]
        ELSE [date EXCEPT !.y = date.y + 1, !.m = 0, !.d = 1]

RECURSIVE PlusCalendarDays(_, _)
\* date advanced by n calendar days, one day at a time
PlusCalendarDays(date, n) ==
    IF n = 0 THEN date ELSE PlusCalendarDays(NextCalendarDay(date), n - 1)

C5_NoItemsGivesEmpty ==
    /\ parsed.called
    /\ data.t = "obj"
    /\ \/ Get(data, "items").t = "undef"
       \/ Get(data, "items").t = "arr" /\ Len(Get(data, "items").a) = 0
    => parsed.out = Return(<<>>)

C5_Witness ==
    /\ parsed.called
    /\ data.t = "obj" /\ Get(data, "items").t = "arr" /\ Len(Get(data, "items").a) = 0
    /\ parsed.out.ok /\ Len(parsed.out.value) = 0

\* C6 as stated: parseForecast returns the empty sequence and raises nothing
\* whenever the first item's per-day sequence is empty or absent, whatever
\* else the item holds.
C6_NoEntriesGivesEmpty ==
    /\ parsed.called /\ HasFirstItem
    /\ \/ Entries.t = "undef"
       \/ Entries.t = "arr" /\ Len(Entries.a) = 0
    => parsed.out = Return(<<>>)

-----------------------------------------------------------------------------
(* The claims about getWeatherEmoji, checked under SpecHelpers *)

\* getWeatherEmoji has been called with a text
IconCalledWithText == ret.called /\ call.fn = "getWeatherEmoji" /\ call.arg.t = "str"

\* the condition text is, letter for letter, key number i of the table
IsKey(text, i) == text = weatherEmoji[i][1]

\* the condition text, case ignored, contains key number i of the table
ContainsKey(text, i) ==
    \E from \in 1..Len(text) :
        /\ from + Len(weatherEmoji[i][1]) - 1 <= Len(text)
        /\ \A k \in 1..Len(weatherEmoji[i][1]) :
            LowerChar(text[from + k - 1]) = LowerChar(weatherEmoji[i][1][k])

\* the symbol of entry number i, as getWeatherEmoji returns it
SymbolOf(i) == Return(JStr(<<weatherEmoji[i][2]>>))

\* C12: for every key K of the table, getWeatherEmoji of a text equal to K,
\* case included, returns the symbol the table maps K to.
C12_ExactMatch ==
    IconCalledWithText =>
        \A i \in 1..Len(weatherEmoji) : IsKey(call.arg.s, i) => ret.out = SymbolOf(i)

C12_Witness ==
    /\ IconCalledWithText
    /\ call.arg.s = <<"T", "h", "u", "n", "d", "e", "r", "s", "t", "o", "r", "m">>
    /\ ret.out = Return(JStr(<<"thunder_rain_cloud">>))

\* C13: for a text that equals no key but, case ignored, contains one or more
\* keys, getWeatherEmoji returns the symbol of the first of those keys in the
\* declaration order of the table.
C13_FirstPartialMatchWins ==
    /\ IconCalledWithText
    /\ \A i \in 1..Len(weatherEmoji) : ~IsKey(call.arg.s, i)
    /\ \E i \in 1..Len(weatherEmoji) : ContainsKey(call.arg.s, i)
    => \E i \in 1..Len(weatherEmoji) :
        /\ ContainsKey(call.arg.s, i)
        /\ \A j \in 1..(i - 1) : ~ContainsKey(call.arg.s, j)
        /\ ret.out = SymbolOf(i)

C13_Witness ==
    /\ IconCalledWithText
    /\ call.arg.s = <<"L", "i", "g", "h", "t", " ", "r", "a", "i", "n", ",", " ", "l", "a", "t", "e", "r", " ", "p", "a", "r", "t", "l", "y", " ", "c", "l", "o", "u", "d", "y">>
    /\ ret.out = Return(JStr(<<"sun_behind_cloud">>))

\* the text equals no key of the table and, case ignored, contains none
MatchesNoKey(text) ==
    \A i \in 1..Len(weatherEmoji) : ~IsKey(text, i) /\ ~ContainsKey(text, i)

\* C14: getWeatherEmoji never fails: for every condition text, the empty and
\* the absent one included, it returns a value, and for a text that equals no
\* key and contains none, case ignored, it returns the default symbol.
C14_NeverFailsDefault ==
    /\ ret.called /\ call.fn = "getWeatherEmoji"
    /\ call.arg.t \in {"str", "undef"}
    => /\ ret.out.ok
       /\ (call.arg.t = "undef" \/ MatchesNoKey(call.arg.s))
            => ret.out = Return(JStr(<<"sun_behind_small_cloud">>))

-----------------------------------------------------------------------------
(* More claims about parseForecast, checked under SpecParse *)

\* parseForecast has returned the records of the first item's entries
Normalized ==
    parsed.called /\ HasFirstItem /\ Entries.t = "arr" /\ parsed.out.ok

\* the text is an integer in decimal digits, with or without a minus sign
IsEncodedInteger(v) ==
    /\ v.t = "str" /\ Len(v.s) > 0
    /\ \A k \in 1..Len(v.s) : IsDigit(v.s[k]) \/ (k = 1 /\ v.s[k] = "-" /\ Len(v.s) > 1)

RECURSIVE DecimalValue(_)
\* the number a sequence of decimal digits writes, read from its last digit
DecimalValue(s) ==
    IF Len(s) = 0 THEN 0
    ELSE 10 * DecimalValue(SubSeq(s, 1, Len(s) - 1))
            + (CHOOSE n \in 0..9 : Digits[n + 1] = s[Len(s)])

\* the integer an encoded integer writes
EncodedValue(v) ==
    IF v.s[1] = "-" THEN 0 - DecimalValue(Tail(v.s)) ELSE DecimalValue(v.s)

\* the record's temperature is the sentinel for an absent field, the integer
\* the field writes for a present one, and nothing else
TemperatureAsClaimed(field, temp) ==
    /\ field.t = "undef" => temp.t = "str" /\ temp.s = <<"N", "/", "A">>
    /\ IsEncodedInteger(field) => temp.t = "num" /\ temp.n = EncodedValue(field)
    /\ temp.t = "num" \/ (temp.t = "str" /\ temp.s = <<"N", "/", "A">>)

HasBothWindFields(wind) ==
    wind.t = "obj" /\ Get(wind, "direction").t = "str" /\ Get(wind, "speed").t = "str"

\* C16 as stated: in every record parseForecast returns, wind is
\* '<direction> <speed>' when the entry's wind descriptor has both, and the
\* sentinel 'N/A' in every other case.
C16_WindBothOrSentinel ==
    Normalized =>
        \A i \in 1..Len(Entries.a) :
            LET wind == Get(Entries.a[i], "wind") IN
            parsed.out.value[i].wind =
                IF HasBothWindFields(wind)
                THEN JStr(Get(wind, "direction").s \o <<" ">> \o Get(wind, "speed").s)
                ELSE JStr(<<"N", "/", "A">>)

\* the response with every item after the first one dropped
FirstItemOnly == [data EXCEPT !.items = JArr(<<FirstItem>>)]

\* C17: parseForecast returns for a response what it returns for the response
\* cut down to its first item, so responses that differ only in later items
\* give equal outcomes.
C17_OnlyFirstItemRead ==
    parsed.called /\ HasFirstItem => parsed.out = parseForecastIn(FirstItemOnly, tz)

C17_Witness ==
    /\ parsed.called /\ HasFirstItem
    /\ Len(Get(data, "items").a) = 2
    /\ Get(data, "items").a[2] # FirstItem
    /\ parsed.out.ok /\ Len(parsed.out.value) >= 2

WeekdayNames == <<<<"S", "u", "n">>, <<"M", "o", "n">>, <<"T", "u", "e">>, <<"W", "e", "d">>, <<"T", "h", "u">>, <<"F", "r", "i">>, <<"S", "a", "t">>>>

MonthOffsets == <<0, 3, 2, 5, 0, 3, 5, 1, 4, 6, 2, 4>>

\* the weekday of a calendar date, 0 for Sunday
Weekday(date) ==
    LET y == IF date.m < 2 THEN date.y - 1 ELSE date.y
    IN  (y + (y \div 4) - (y \div 100) + (y \div 400) + MonthOffsets[date.m + 1] + date.d) % 7

\* the per-day entries are the four of a validity start written 2025-12-07
FourDaysFrom7Dec2025 ==
    /\ Start.t \in {"iso", "isodate"}
    /\ Start.y = 2025 /\ Start.mo = 12 /\ Start.d = 7
    /\ Len(Entries.a) = 4

\* C19 as stated: the dayName of every record is the weekday name of the
\* record's own date, so the names of consecutive records are consecutive
\* weekdays; and for a validity start 2025-12-07 and four entries the names
\* are Sun, Mon, Tue, Wed.
C19_DayNames ==
    Normalized =>
        /\ \A i \in 1..Len(Entries.a) :
            parsed.out.value[i].date.valid =>
                parsed.out.value[i].dayName = JStr(WeekdayNames[Weekday(parsed.out.value[i].date) + 1])
        /\ \A i \in 1..(Len(Entries.a) - 1) :
            parsed.out.value[i].date.valid =>
                parsed.out.value[i + 1].dayName =
                    JStr(WeekdayNames[((Weekday(parsed.out.value[i].date) + 1) % 7) + 1])
        /\ FourDaysFrom7Dec2025 =>
            \A i \in 1..4 : parsed.out.value[i].dayName = JStr(WeekdayNames[i])

-----------------------------------------------------------------------------
(* The claim about formatDate, checked under SpecHelpers *)

\* the two decimal digits of a number below 100
TwoDigits(n) == <<Digits[(n \div 10) + 1], Digits[(n % 10) + 1]>>

\* C20: for every date, formatDate returns the day of the month in two
\* digits, a '/', and the month number, 1 to 12, in two digits; 2025-01-05
\* gives '05/01'.
C20_DayFirstZeroPadded ==
    /\ ret.called /\ call.fn = "formatDate" /\ call.arg.valid
       => ret.out = Return(JStr(TwoDigits(call.arg.d) \o <<"/">> \o TwoDigits(call.arg.m + 1)))
    /\ ret.called /\ call.fn = "formatDate" /\ call.arg = MkDate(2025, 0, 5, 0)
       => ret.out.value.s = <<"0", "5", "/", "0", "1">>

C20_Witness ==
    /\ ret.called /\ call.fn = "formatDate" /\ call.arg = MkDate(2025, 0, 5, 0)
    /\ ret.out = Return(JStr(<<"0", "5", "/", "0", "1">>))

-----------------------------------------------------------------------------
(* The claim about the blocks of the forecast container, checked under Spec *)

\* the block of the forecast container shows the texts of the day record
BlockShows(block, day) ==
    /\ block.dayName = ToChars(day.dayName)
    /\ block.dateStr = ToChars(day.dateStr)
    /\ block.icon = ToChars(day.emoji)
    /\ block.temp = ToChars(day.high) \o <<"deg", "C">>
    /\ block.tempRange = <<"Low: ">> \o ToChars(day.low) \o <<"deg", "C">>
    /\ block.condition = ToChars(day.condition)

\* C21 as stated: after a run that fetched a forecast of at least one day, the
\* forecast container holds exactly one block per day record, in the order of
\* the records, and block i shows the day name, short date, icon, high, low
\* and condition text of record i.
C21_OneBlockPerEntry ==
    pc = "done" /\ FetchSucceeded =>
        \A forecast \in {parseForecast(net.body.value)} :
            forecast.ok /\ Len(forecast.value) > 0 =>
                /\ Len(forecastHTML) = Len(forecast.value)
                /\ \A i \in 1..Len(forecast.value) :
                    BlockShows(forecastHTML[i], forecast.value[i])

-----------------------------------------------------------------------------
(* The claim about the values getWeatherEmoji returns, checked under SpecHelpers *)

\* the generic default symbol, as getWeatherEmoji returns it
DefaultSymbol == Return(JStr(<<"sun_behind_small_cloud">>))

\* C22 as stated: for every condition text getWeatherEmoji returns a symbol
\* the table declares or the default symbol; and a text that is no key of the
\* table, a name every object inherits included, is not matched exactly: it
\* gets the symbol of a key it contains or the default symbol.
C22_OnlyDeclaredSymbols ==
    IconCalledWithText =>
        /\ ret.out = DefaultSymbol \/ \E i \in 1..Len(weatherEmoji) : ret.out = SymbolOf(i)
        /\ (\A i \in 1..Len(weatherEmoji) : ~IsKey(call.arg.s, i)) =>
            \/ ret.out = DefaultSymbol
            \/ \E i \in 1..Len(weatherEmoji) :
                ContainsKey(call.arg.s, i) /\ ret.out = SymbolOf(i)

-----------------------------------------------------------------------------
(* The claims about the events, checked under SpecEvents *)

\* the participant count and the registered flag an event started with: those
\* of the declaration for a sample event, one participant and registered for
\* an event created through the dialog
InitiallyRegistered(event) ==
    IF event.id <= Len(SampleEvents) THEN event.id = 1 ELSE TRUE

InitialCount(event) ==
    CASE event.id = 1 -> 12
      [] event.id = 2 -> 8
      [] event.id = 3 -> 15
      [] event.id = 4 -> 20
      [] OTHER -> 1

\* every event's count is its initial count, one more if it has become
\* registered, one less if it has become unregistered; no count is negative
CountsFollowFlags ==
    \A i \in 1..Len(events) :
        /\ events[i].participants =
            InitialCount(events[i])
            + (IF events[i].registered /\ ~InitiallyRegistered(events[i]) THEN 1
               ELSE IF ~events[i].registered /\ InitiallyRegistered(events[i]) THEN -1
               ELSE 0)
        /\ events[i].participants >= 0

\* a step of handleEventRegister: with the id of no event it changes nothing
\* of the page, and right after a call with the same id it gives back the
\* dataset from before that call
RegisterStep ==
    call'.fn = "handleEventRegister" =>
        /\ (\A i \in 1..Len(events) : events[i].id # call'.arg) =>
            UNCHANGED <<events, grid, activeFilter, modals, toast>>
        /\ (call.fn = "handleEventRegister" /\ call.arg = call'.arg) =>
            events' = call.before

\* C23: after any sequence of handleEventRegister calls every event's
\* participant count is its initial count, plus 1 if it is registered now and
\* was not initially, minus 1 if it is unregistered now and was registered
\* initially; the count is never negative, two successive calls with the same
\* id restore the event, and a call with the id of no event changes nothing.
C23_CountsFollowRegistration == [](CountsFollowFlags) /\ [][RegisterStep]_vars

C23_Witness ==
    /\ call.fn = "handleEventRegister" /\ call.arg = 2
    /\ call.before[2].registered /\ ~events[2].registered
    /\ events[2].participants = 8
    /\ ~events[1].registered /\ events[1].participants = 11
    /\ events[3].registered /\ events[3].participants = 16

\* the ids of the events are pairwise distinct
DistinctIds ==
    \A i, j \in 1..Len(events) : events[i].id = events[j].id => i = j

\* a step of the 'Create Event' callback: the dataset is the old one with one
\* event appended, whose id is above every id of the old one
CreateStep ==
    call'.fn = "createEvent" =>
        /\ Len(events') = Len(events) + 1
        /\ SubSeq(events', 1, Len(events)) = events
        /\ \A i \in 1..Len(events) : events'[Len(events')].id > events[i].id

Selected(filter) ==
    {events[i].id : i \in {j \in 1..Len(events) :
        \/ filter = "all"
        \/ filter = "upcoming" /\ ~events[j].registered
        \/ filter = "registered" /\ events[j].registered}}

\* C25 as stated: after any sequence of filter clicks and registration
\* toggles (no event created), the events shown in the grid are exactly those
\* the active filter button selects from the current dataset.
C25_GridShowsActiveFilter ==
    Len(events) = Len(SampleEvents) =>
        {grid[i].id : i \in 1..Len(grid)} = Selected(activeFilter)

=============================================================================
